---- MODULE Spec2Model ----
(***************************************************************************)
(* golang-websockets: a websocket broadcaster.                             *)
(*                                                                         *)
(* One HTTP handler goroutine per accepted websocket connection            *)
(* (onWsConnect), one write-loop goroutine per client (listenToWrite), the *)
(* read loop on the handler goroutine (listenToRead), and one goroutine    *)
(* per /broadcast/ request.  The registry `clients` is an unsynchronised   *)
(* global Go slice: every step below is one access to shared memory (the   *)
(* global slice, a backing array, a channel), interleaved freely.          *)
(***************************************************************************)
EXTENDS Integers, Sequences, FiniteSets, TLC

\* ---------------------------------------------------------------- bounds
\* connections the environment opens
MaxConn == 2
\* /broadcast/ requests the environment makes
MaxTrig == 1
\* messages the clients send, over all connections
MaxReads == 1
\* connections the remote end closes
MaxClose == 1
\* capacity of a client's message channel: make(chan *Message, 100) in the
\* code, kept small here so that a full channel is reached
ChanCap == 1

\* Bounds of the second environment (RaceSpec): five connections, the
\* fewest with which append writes into a shared backing array (capacities
\* grow 1, 2, 4), of which the first RaceSerial are registered one after
\* the other and only the first RaceTalkers ever send or close, and do so
\* before the next connection is opened; the /broadcast/ requests come
\* once RaceSerial + 1 connections have been opened.
RaceConn == 5
RaceSerial == 3
RaceTalkers == 1

\* Bounds of the third environment (SessionSpec): the first SessSerial
\* connections are registered before the next is opened, the first
\* SessTalkers connections send more messages (or frames that fail to
\* decode), and a channel holds more than one message, so that the order
\* of a channel's messages shows.
SessConn == 2
SessSerial == 1
SessTalkers == 1
SessTrig == 1
SessReads == 2
SessClose == 1
SessCap == 2

NConn == IF MaxConn > RaceConn THEN MaxConn ELSE RaceConn
NTrig == IF MaxTrig > SessTrig THEN MaxTrig ELSE SessTrig

Conn == 1..NConn
Trig == 1..NTrig

\* A broadcaster is a read loop or a /broadcast/ request.
Rd(c) == <<"rd", c>>
Tr(t) == <<"tr", t>>
Procs == {Rd(c) : c \in Conn} \cup {Tr(t) : t \in Trig}

\* ---------------------------------------------------------------- values
\* type Message struct { Author, Body }
Message(a, b) == [author |-> a, body |-> b]

\* Message{"Server", "Welcome!"}
Greeting == Message("Server", "Welcome!")

\* the bodies of the messages clients send, in the order they are sent,
\* and the author the client of each connection signs with
Bodies == << "hi", "yo", "ok", "re" >>
Authors == << "A", "B", "C", "D", "E" >>

\* the n-th message the clients send, sent by the client of connection c
ClientMsg(c, n) ==
    Message(Authors[((c - 1) % Len(Authors)) + 1], Bodies[((n - 1) % Len(Bodies)) + 1])

\* what clients send over their connection
ClientMsgs == {ClientMsg(c, n) : c \in 1..Len(Authors), n \in 1..Len(Bodies)}

\* request paths: a path is the sequence of its characters, slash-free runs
\* of them written as one string.  /broadcast/after carries a message,
\* /broadcast/ has no message segment, /broadcast lacks the separator too.
Paths == { <<"/", "broadcast", "/", "after">>,
           <<"/", "broadcast", "/">>,
           <<"/", "broadcast">> }

\* http.HandleFunc("/broadcast/", ...): the pattern ends in a slash, so the
\* handler gets the paths that start with it (the bare /broadcast is
\* answered by the mux with a redirect and never reaches the handler)
Routed(p) == Len(p) >= 3 /\ p[1] = "/" /\ p[2] = "broadcast" /\ p[3] = "/"

\* strings.Split(path, "/"): the slash-free runs between the separators,
\* empty strings where two separators touch or the path starts/ends with one
RECURSIVE SplitFrom(_, _, _)
SplitFrom(p, i, cur) ==
    IF i > Len(p) THEN <<cur>>
    ELSE IF p[i] = "/" THEN <<cur>> \o SplitFrom(p, i + 1, "")
    ELSE SplitFrom(p, i + 1, cur \o p[i])

Split(p) == SplitFrom(p, 1, "")

\* readMsgFromRequest reading one segment further, parts[3]
readMsgFromRequestNext(p) ==
    LET parts == Split(p)
    IN  IF Len(parts) >= 4 THEN parts[4] ELSE "panic"

\* readMsgFromRequest: parts[2] of the split path (0-based), "panic" when
\* the index is out of range
readMsgFromRequest(p) ==
    LET parts == Split(p)
    IN  IF Len(parts) >= 3 THEN parts[3] ELSE "panic"

\* ---------------------------------------------------------------- slices
\* A Go slice header; arr = 0 is the nil slice.
NilSlice == [arr |-> 0, len |-> 0, cap |-> 0]

\* the set of elements a slice header sees in the heap h
ElemSet(h, s) == {h[s.arr][i] : i \in 1..s.len}

\* append(list, client) of the Go runtime: in place when the backing array
\* has room, otherwise into a new array of doubled capacity.
\* The result is <<new heap, new slice header>>.
GoAppend(h, s, c) ==
    IF s.len < s.cap
    THEN << [h EXCEPT ![s.arr][s.len + 1] = c],
            [s EXCEPT !.len = s.len + 1] >>
    ELSE LET ncap == IF s.cap = 0 THEN 1 ELSE 2 * s.cap
             narr == [i \in 1..ncap |->
                        IF i <= s.len THEN h[s.arr][i]
                        ELSE IF i = s.len + 1 THEN c ELSE 0]
         IN  << Append(h, narr),
                [arr |-> Len(h) + 1, len |-> s.len + 1, cap |-> ncap] >>

\* ---------------------------------------------------------------- state
VARIABLES
    clients,   \* the global slice header `var clients []Client`
    heap,      \* backing arrays of Client slices, by array id
    hpc,       \* onWsConnect's position, per connection
    loc,       \* onWsConnect/addClientAndGreet's slice-valued local
    rd,        \* listenToRead's position, per connection
    wr,        \* listenToWrite's position, per connection
    queue,     \* c.ch: the buffered channel of each client
    wire,      \* frames sent on each connection: [msg, by]
    peer,      \* the remote end of each connection: "open" or "eof"
    closed,    \* number of ws.Close() calls per connection
    bc,        \* the broadcast call in progress, per broadcaster
    tpc,       \* position of each /broadcast/ request
    resp,      \* response body of each /broadcast/ request
    nreads,    \* messages read so far from all connections
    nerrs,     \* reads that failed with an error other than io.EOF so far
    hold,      \* listenToWrite's `msg`: the message it has taken from c.ch
               \* and has yet to send, as a sequence of length 0 or 1
    env,       \* what the environment does at most: connections opened,
               \* connections opened one after the other, connections that
               \* send or close (and whether only while they are the newest),
               \* messages sent, closes, /broadcast/ requests (and the
               \* number of connections opened before them)
    last       \* per broadcaster, its latest broadcast call: message, registry
               \* members and sessions at rest at the call, enqueues made per
               \* client, clients whose channel it found full, and whether it
               \* returned

vars == << clients, heap, hpc, loc, rd, wr, queue, wire, peer, closed,
           bc, tpc, resp, nreads, nerrs, env, hold, last >>

NoBc == [msg |-> Greeting, snap |-> NilSlice, i |-> 0, tgt |-> 0]

NoCall == [msg |-> Greeting, mem |-> {}, gone |-> {}, dl |-> [c \in Conn |-> 0],
           full |-> {}, st |-> "none"]

Start ==
    /\ clients = NilSlice
    /\ heap = << >>
    /\ hpc = [c \in Conn |-> "idle"]
    /\ loc = [c \in Conn |-> NilSlice]
    /\ rd = [c \in Conn |-> "none"]
    /\ wr = [c \in Conn |-> "none"]
    /\ queue = [c \in Conn |-> << >>]
    /\ wire = [c \in Conn |-> << >>]
    /\ peer = [c \in Conn |-> "open"]
    /\ closed = [c \in Conn |-> 0]
    /\ bc = [p \in Procs |-> NoBc]
    /\ tpc = [t \in Trig |-> "idle"]
    /\ resp = [t \in Trig |-> ""]
    /\ nreads = 0
    /\ nerrs = 0
    /\ hold = [c \in Conn |-> << >>]
    /\ last = [p \in Procs |-> NoCall]

Init ==
    /\ Start
    /\ env = [conns |-> MaxConn, serial |-> 0, talkers |-> MaxConn, early |-> FALSE,
              reads |-> MaxReads, closes |-> MaxClose, trigs |-> MaxTrig, after |-> 0,
              cap |-> ChanCap]

InitRace ==
    /\ Start
    /\ env = [conns |-> RaceConn, serial |-> RaceSerial, talkers |-> RaceTalkers,
              early |-> TRUE, reads |-> 1, closes |-> 1, trigs |-> 1,
              after |-> RaceSerial + 1, cap |-> ChanCap]

InitSession ==
    /\ Start
    /\ env = [conns |-> SessConn, serial |-> SessSerial, talkers |-> SessTalkers, early |-> FALSE,
              reads |-> SessReads, closes |-> SessClose, trigs |-> SessTrig, after |-> 0,
              cap |-> SessCap]

\* ---------------------------------------------------------------- helpers
\* the client of connection c may send or close now
Talks(c) ==
    /\ c <= env.talkers
    /\ env.early => \A d \in Conn : d > c => hpc[d] = "idle"

\* a /broadcast/ request may come now
Requests == \A d \in 1..env.after : hpc[d] # "idle"

\* websocket.JSON.Send(conn, msg), its error ignored: the frame goes out
\* unless the remote end is gone
JSONSend(w, c, m, by) ==
    IF peer[c] = "open"
    THEN [w EXCEPT ![c] = Append(@, [msg |-> m, by |-> by])]
    ELSE w

\* ---------------------------------------------------------------- broadcast
\* The session of c has seen the end of its stream and has come to rest:
\* its read loop is parked for good in a send on c.close that nothing will
\* receive, its write loop has returned or is parked likewise.
Terminated(c) ==
    \/ rd[c] = "sendAck" /\ wr[c] = "returned"
    \/ rd[c] = "sendEOF" /\ wr[c] = "sendAck"

\* The client the running call of p is at: the one it is blocked on, or
\* element i of the backing array of the slice it ranges over.
Target(b) == IF b.tgt # 0 THEN b.tgt ELSE heap[b.snap.arr][b.i]

\* c.ch <- msg can proceed
Room(c) == Len(queue[c]) < env.cap

\* the call of p returns with this step: its last element, and room for it
Returns(p) == bc[p].i = bc[p].snap.len /\ Room(Target(bc[p]))

\* broadcast(msg), entry: `range clients` evaluates the global slice once.
\* An empty registry returns at once.
BroadcastCall(p, m) ==
    /\ bc' = [bc EXCEPT ![p] =
                IF clients.len = 0 THEN NoBc
                ELSE [msg |-> m, snap |-> clients, i |-> 1, tgt |-> 0]]
    /\ last' = [last EXCEPT ![p] =
                [msg |-> m, mem |-> ElemSet(heap, clients),
                 gone |-> {c \in Conn : Terminated(c)},
                 dl |-> [c \in Conn |-> 0], full |-> {},
                 st |-> IF clients.len = 0 THEN "done" ELSE "running"]]

\* BroadcastStep with the message put at the front of the channel
BroadcastStepFront(p) ==
    LET b == bc[p]
        t == Target(b)
    IN  /\ b.i >= 1
        /\ Room(t) \/ b.tgt = 0
        /\ IF Room(t)
           THEN /\ queue' = [queue EXCEPT ![t] = << b.msg >> \o @]
                /\ bc' = [bc EXCEPT ![p] =
                            IF Returns(p) THEN NoBc
                            ELSE [b EXCEPT !.i = b.i + 1, !.tgt = 0]]
                /\ last' = [last EXCEPT ![p].dl[t] = @ + 1,
                                        ![p].st = IF Returns(p) THEN "done" ELSE @]
           ELSE /\ bc' = [bc EXCEPT ![p].tgt = t]
                /\ last' = [last EXCEPT ![p].full = @ \cup {t}]
                /\ UNCHANGED queue

\* broadcast(msg), one iteration of the loop: read element i, then
\* c.ch <- msg, which blocks while the channel is full.
BroadcastStep(p) ==
    LET b == bc[p]
        t == Target(b)
    IN  /\ b.i >= 1
        /\ Room(t) \/ b.tgt = 0
        /\ IF Room(t)
           THEN /\ queue' = [queue EXCEPT ![t] = Append(@, b.msg)]
                /\ bc' = [bc EXCEPT ![p] =
                            IF Returns(p) THEN NoBc
                            ELSE [b EXCEPT !.i = b.i + 1, !.tgt = 0]]
                /\ last' = [last EXCEPT ![p].dl[t] = @ + 1,
                                        ![p].st = IF Returns(p) THEN "done" ELSE @]
           ELSE /\ bc' = [bc EXCEPT ![p].tgt = t]
                /\ last' = [last EXCEPT ![p].full = @ \cup {t}]
                /\ UNCHANGED queue

\* ---------------------------------------------------------------- connect
\* onWsConnect, up to the call of addClientAndGreet: NewClient(ws) and the
\* argument `clients` are evaluated.  Connections are numbered in the order
\* in which they are accepted.
OnWsConnect(c) ==
    /\ hpc[c] = "idle"
    /\ c <= env.conns
    /\ (IF c = 1 THEN TRUE ELSE hpc[c - 1] # "idle")
    /\ c <= env.serial + 1 => \A d \in 1..(c - 1) : hpc[d] \in {"listen", "returned"}
    /\ hpc' = [hpc EXCEPT ![c] = "append"]
    /\ loc' = [loc EXCEPT ![c] = clients]
    /\ UNCHANGED << clients, heap, rd, wr, queue, wire, peer, closed,
                    bc, tpc, resp, nreads, nerrs, env, hold, last >>

\* AddClient with the write loop started at registration, before the
\* greeting is sent
AddClientThenWrite(c) ==
    /\ hpc[c] = "append"
    /\ LET r == GoAppend(heap, loc[c], c)
       IN  /\ heap' = r[1]
           /\ clients' = r[2]
    /\ hpc' = [hpc EXCEPT ![c] = "greet"]
    /\ wr' = [wr EXCEPT ![c] = "select"]
    /\ UNCHANGED << loc, rd, queue, wire, peer, closed,
                    bc, tpc, resp, nreads, nerrs, env, hold, last >>

\* addClientAndGreet: clients = append(list, client)
AddClient(c) ==
    /\ hpc[c] = "append"
    /\ LET r == GoAppend(heap, loc[c], c)
       IN  /\ heap' = r[1]
           /\ clients' = r[2]
    /\ hpc' = [hpc EXCEPT ![c] = "greet"]
    /\ UNCHANGED << loc, rd, wr, queue, wire, peer, closed,
                    bc, tpc, resp, nreads, nerrs, env, hold, last >>

\* addClientAndGreet: the greeting is sent on the connection, then
\* `return clients` reads the global again
Greet(c) ==
    /\ hpc[c] = "greet"
    /\ wire' = JSONSend(wire, c, Greeting, "greet")
    /\ loc' = [loc EXCEPT ![c] = clients]
    /\ hpc' = [hpc EXCEPT ![c] = "assign"]
    /\ UNCHANGED << clients, heap, rd, wr, queue, peer, closed,
                    bc, tpc, resp, nreads, nerrs, env, hold, last >>

\* Listen without `go c.listenToWrite()`
ListenNoWriter(c) ==
    /\ hpc[c] = "assign"
    /\ clients' = loc[c]
    /\ hpc' = [hpc EXCEPT ![c] = "listen"]
    /\ rd' = [rd EXCEPT ![c] = "recv"]
    /\ UNCHANGED << heap, loc, wr, queue, wire, peer, closed,
                    bc, tpc, resp, nreads, nerrs, env, hold, last >>

\* onWsConnect: the returned slice is assigned to clients, then
\* client.listen() starts the write loop and enters the read loop, whose
\* select finds nothing sending on c.close and takes `default`
Listen(c) ==
    /\ hpc[c] = "assign"
    /\ clients' = loc[c]
    /\ hpc' = [hpc EXCEPT ![c] = "listen"]
    /\ wr' = [wr EXCEPT ![c] = "select"]
    /\ rd' = [rd EXCEPT ![c] = "recv"]
    /\ UNCHANGED << heap, loc, queue, wire, peer, closed,
                    bc, tpc, resp, nreads, nerrs, env, hold, last >>

\* the remote end closes its connection
PeerClose(c) ==
    /\ hpc[c] # "idle"
    /\ peer[c] = "open"
    /\ Talks(c)
    /\ Cardinality({d \in Conn : peer[d] = "eof"}) < env.closes
    /\ peer' = [peer EXCEPT ![c] = "eof"]
    /\ UNCHANGED << clients, heap, hpc, loc, rd, wr, queue, wire, closed,
                    bc, tpc, resp, nreads, nerrs, env, hold, last >>

\* ---------------------------------------------------------------- read loop
\* listenToRead, the select once c.close has been used: `case <-c.close`
\* when the write loop is sending on c.close (it then returns, and this
\* loop goes on to its own send on c.close), `default` otherwise.  Until
\* this loop has sent on c.close nothing can be sending on it, and the
\* select takes `default` within the step that ends the iteration before.
RdSelect(c) ==
    /\ rd[c] = "select"
    /\ IF wr[c] = "sendAck"
       THEN /\ wr' = [wr EXCEPT ![c] = "returned"]
            /\ rd' = [rd EXCEPT ![c] = "sendAck"]
       ELSE /\ rd' = [rd EXCEPT ![c] = "recv"]
            /\ UNCHANGED wr
    /\ UNCHANGED << clients, heap, hpc, loc, queue, wire, peer, closed,
                    bc, tpc, resp, nreads, nerrs, env, hold, last >>

\* listenToRead, default case: websocket.JSON.Receive returns a message,
\* which is broadcast
RdMessage(c) ==
    /\ rd[c] = "recv"
    /\ peer[c] = "open"
    /\ Talks(c)
    /\ nreads + nerrs < env.reads
    /\ BroadcastCall(Rd(c), ClientMsg(c, nreads + 1))
    /\ nreads' = nreads + 1
    /\ rd' = [rd EXCEPT ![c] = IF clients.len = 0 THEN "recv" ELSE "bcast"]
    /\ UNCHANGED << clients, heap, hpc, loc, wr, queue, wire, peer, closed,
                    tpc, resp, nerrs, env, hold >>

\* RdError with the error handled like io.EOF
RdErrorCloses(c) ==
    /\ rd[c] = "recv"
    /\ peer[c] = "open"
    /\ Talks(c)
    /\ nreads + nerrs < env.reads
    /\ nerrs' = nerrs + 1
    /\ rd' = [rd EXCEPT ![c] = "sendEOF"]
    /\ UNCHANGED << clients, heap, hpc, loc, wr, queue, wire, peer, closed,
                    bc, tpc, resp, nreads, env, hold, last >>

\* listenToRead, default case: the client has sent a frame that does not
\* decode and Receive fails with an error other than io.EOF; the branch
\* `else if err != nil` is empty and the loop is back in Receive
RdError(c) ==
    /\ rd[c] = "recv"
    /\ peer[c] = "open"
    /\ Talks(c)
    /\ nreads + nerrs < env.reads
    /\ nerrs' = nerrs + 1
    /\ rd' = [rd EXCEPT ![c] = "recv"]
    /\ UNCHANGED << clients, heap, hpc, loc, wr, queue, wire, peer, closed,
                    bc, tpc, resp, nreads, env, hold, last >>

\* listenToRead, default case: Receive returns io.EOF; the loop goes on to
\* c.close <- true
RdEOF(c) ==
    /\ rd[c] = "recv"
    /\ peer[c] = "eof"
    /\ rd' = [rd EXCEPT ![c] = "sendEOF"]
    /\ UNCHANGED << clients, heap, hpc, loc, wr, queue, wire, peer, closed,
                    bc, tpc, resp, nreads, nerrs, env, hold, last >>

\* listenToRead inside broadcast(&msg)
RdBroadcast(c) ==
    /\ rd[c] = "bcast"
    /\ BroadcastStep(Rd(c))
    /\ rd' = [rd EXCEPT ![c] = IF Returns(Rd(c)) THEN "recv" ELSE "bcast"]
    /\ UNCHANGED << clients, heap, hpc, loc, wr, wire, peer, closed,
                    tpc, resp, nreads, nerrs, env, hold >>

\* ---------------------------------------------------------------- write loop
\* WrTake taking the newest message of the channel
WrTakeLast(c) ==
    /\ wr[c] = "select"
    /\ queue[c] # << >>
    /\ hold' = [hold EXCEPT ![c] = << queue[c][Len(queue[c])] >>]
    /\ queue' = [queue EXCEPT ![c] = SubSeq(@, 1, Len(@) - 1)]
    /\ wr' = [wr EXCEPT ![c] = "send"]
    /\ UNCHANGED << clients, heap, hpc, loc, rd, wire, peer, closed,
                    bc, tpc, resp, nreads, nerrs, env, last >>

\* listenToWrite, `case msg := <-c.ch`: the message at the front of the
\* channel is received, which frees its slot
WrTake(c) ==
    /\ wr[c] = "select"
    /\ queue[c] # << >>
    /\ hold' = [hold EXCEPT ![c] = << Head(queue[c]) >>]
    /\ queue' = [queue EXCEPT ![c] = Tail(@)]
    /\ wr' = [wr EXCEPT ![c] = "send"]
    /\ UNCHANGED << clients, heap, hpc, loc, rd, wire, peer, closed,
                    bc, tpc, resp, nreads, nerrs, env, last >>

\* listenToWrite, websocket.JSON.Send(c.connection, msg) with the message
\* taken: it goes out if the remote end is there when the send is made,
\* and the loop is back at its select
WrSend(c) ==
    /\ wr[c] = "send"
    /\ wire' = JSONSend(wire, c, hold[c][1], "write")
    /\ hold' = [hold EXCEPT ![c] = << >>]
    /\ wr' = [wr EXCEPT ![c] = "select"]
    /\ UNCHANGED << clients, heap, hpc, loc, rd, queue, peer, closed,
                    bc, tpc, resp, nreads, nerrs, env, last >>

\* listenToWrite, `case <-c.close`: it receives what the read loop is
\* sending on c.close.  The read loop's send after io.EOF brings it back to
\* its select; its send in `case <-c.close` is followed by return, upon
\* which listen() and onWsConnect return and the deferred ws.Close() runs.
WrClose(c) ==
    /\ wr[c] = "select"
    /\ rd[c] \in {"sendEOF", "sendAck"}
    /\ wr' = [wr EXCEPT ![c] = "gotClose"]
    /\ rd' = [rd EXCEPT ![c] = IF rd[c] = "sendEOF" THEN "select" ELSE "returned"]
    /\ hpc' = [hpc EXCEPT ![c] = IF rd[c] = "sendEOF" THEN @ ELSE "returned"]
    /\ closed' = [closed EXCEPT ![c] = IF rd[c] = "sendEOF" THEN @ ELSE @ + 1]
    /\ UNCHANGED << clients, heap, loc, queue, wire, peer,
                    bc, tpc, resp, nreads, nerrs, env, hold, last >>

\* listenToWrite, `case <-c.close`: c.close <- true, which blocks until the
\* read loop receives it
WrAck(c) ==
    /\ wr[c] = "gotClose"
    /\ wr' = [wr EXCEPT ![c] = "sendAck"]
    /\ UNCHANGED << clients, heap, hpc, loc, rd, queue, wire, peer, closed,
                    bc, tpc, resp, nreads, nerrs, env, hold, last >>

\* ---------------------------------------------------------------- trigger
\* the /broadcast/ handler: readMsgFromRequest, then broadcast is called
\* with Message{"Server", msg}
TrRequest(t) ==
    /\ tpc[t] = "idle"
    /\ t <= env.trigs
    /\ Requests
    /\ (IF t = 1 THEN TRUE ELSE tpc[t - 1] # "idle")
    /\ \E path \in Paths :
         LET msg == readMsgFromRequest(path)
         IN  /\ Routed(path)
             /\ IF msg = "panic"
                THEN /\ tpc' = [tpc EXCEPT ![t] = "panicked"]
                     /\ UNCHANGED << bc, last, resp >>
                ELSE /\ BroadcastCall(Tr(t), Message("Server", msg))
                     /\ tpc' = [tpc EXCEPT ![t] =
                                  IF clients.len = 0 THEN "done" ELSE "bcast"]
                     /\ resp' = [resp EXCEPT ![t] =
                                  IF clients.len = 0 THEN "Broadcasting " \o msg ELSE @]
    /\ UNCHANGED << clients, heap, hpc, loc, rd, wr, queue, wire, peer, closed,
                    nreads, nerrs, env, hold >>

\* the /broadcast/ handler inside broadcast, and after it
\* fmt.Fprintf(w, "Broadcasting %v", msg)
TrBroadcast(t) ==
    /\ tpc[t] = "bcast"
    /\ BroadcastStep(Tr(t))
    /\ tpc' = [tpc EXCEPT ![t] = IF Returns(Tr(t)) THEN "done" ELSE "bcast"]
    /\ resp' = [resp EXCEPT ![t] =
                  IF Returns(Tr(t)) THEN "Broadcasting " \o bc[Tr(t)].msg.body ELSE @]
    /\ UNCHANGED << clients, heap, hpc, loc, rd, wr, wire, peer, closed, nreads, nerrs, env, hold >>

\* ---------------------------------------------------------------- spec
Next ==
    \/ \E c \in Conn : OnWsConnect(c)
    \/ \E c \in Conn : AddClient(c)
    \/ \E c \in Conn : Greet(c)
    \/ \E c \in Conn : Listen(c)
    \/ \E c \in Conn : PeerClose(c)
    \/ \E c \in Conn : RdSelect(c)
    \/ \E c \in Conn : RdMessage(c)
    \/ \E c \in Conn : RdError(c)
    \/ \E c \in Conn : RdEOF(c)
    \/ \E c \in Conn : RdBroadcast(c)
    \/ \E c \in Conn : WrTake(c)
    \/ \E c \in Conn : WrSend(c)
    \/ \E c \in Conn : WrClose(c)
    \/ \E c \in Conn : WrAck(c)
    \/ \E t \in Trig : TrRequest(t)
    \/ \E t \in Trig : TrBroadcast(t)

Spec == Init /\ [][Next]_vars

RaceSpec == InitRace /\ [][Next]_vars

SessionSpec == InitSession /\ [][Next]_vars

\* The Go scheduler runs every goroutine that can run: a step of the
\* program that stays possible is taken.  What the clients and the callers
\* of /broadcast/ do (connect, send, close, request) is up to them.
Fairness ==
    /\ \A c \in Conn :
          /\ WF_vars(AddClient(c)) /\ WF_vars(Greet(c)) /\ WF_vars(Listen(c))
          /\ WF_vars(RdSelect(c)) /\ WF_vars(RdEOF(c)) /\ WF_vars(RdBroadcast(c))
          /\ WF_vars(WrTake(c)) /\ WF_vars(WrSend(c))
          /\ WF_vars(WrClose(c)) /\ WF_vars(WrAck(c))
    /\ \A t \in Trig : WF_vars(TrBroadcast(t))

FairSessionSpec == SessionSpec /\ Fairness

\* ---------------------------------------------------------------- terms
\* the registry: the clients the global slice holds
Registry == ElemSet(heap, clients)

\* no registration is under way
Settled == \A c \in Conn : hpc[c] \notin {"append", "greet", "assign"}

\* the write loop of c takes no more messages from c.ch: it is neither at
\* its select nor in a send that brings it back there
NotDrained(c) == wr[c] \notin {"select", "send"}

\* p is parked in c.ch <- msg on the full channel of x
BlockedOn(p, x) == bc[p].tgt = x

\* the clients the running call of p has yet to visit after the current one
Pending(p) == {heap[bc[p].snap.arr][j] : j \in (bc[p].i + 1)..bc[p].snap.len}

\* ---------------------------------------------------------------- claims

\* C1: once a broadcast call has returned, its message has been enqueued
\* exactly once on every session that was in the registry when it was
\* called and whose channel the call did not find full.
C1_EnqueuedOnEveryMember ==
    \A p \in Procs :
        last[p].st = "done" =>
            \A s \in last[p].mem \ last[p].full : last[p].dl[s] = 1

\* C2: no broadcaster is ever parked on the full channel of a session that
\* is not being drained: the enqueue is an attempt that does not block.
C2_BroadcastNeverBlocks ==
    \A p \in Procs : \A x \in Conn :
        BlockedOn(p, x) => ~NotDrained(x)

\* C3: a full session X never holds up delivery to another session Y: no
\* broadcast is stuck for good on X's full channel while a session Y that
\* it has yet to visit has room for the message.
C3_FullSessionBlocksNoOther ==
    \A p \in Procs : \A x \in Conn :
        BlockedOn(p, x) /\ Terminated(x) =>
            \A y \in Pending(p) \ {x} : ~Room(y)

\* C4: a broadcast called after a session's clean disconnect has run its
\* course no longer finds that session in the registry.
C4_DisconnectedNotDelivered ==
    \A p \in Procs : last[p].mem \cap last[p].gone = {}

\* C5: after session A has disconnected cleanly while B stays connected,
\* every /broadcast/ request made from then on reaches B: none of them is
\* stuck for good before it has enqueued its message for B.
C5_LaterTriggersReachOthers ==
    \A t \in Trig : \A a \in Conn :
        BlockedOn(Tr(t), a) /\ a \in last[Tr(t)].gone =>
            \A b \in last[Tr(t)].mem \ {a} :
                peer[b] = "open" /\ wr[b] \in {"select", "send"} => last[Tr(t)].dl[b] = 1

\* C6: the connection of a session that has come to rest after a clean
\* end-of-stream has been closed, and no connection is closed twice.
C6_ClosedExactlyOnce ==
    \A c \in Conn :
        /\ closed[c] <= 1
        /\ Terminated(c) => closed[c] = 1

\* the frame of the greeting, sent by addClientAndGreet
GreetFrame == [msg |-> Greeting, by |-> "greet"]

\* the greetings sent on the connection of c
Greetings(c) == {i \in 1..Len(wire[c]) : wire[c][i].by = "greet"}

\* C7: a connection is sent the greeting once, as its first frame and
\* before any broadcast message: at most one greeting goes out, whatever
\* has gone out starts with it, and it has gone out once registration is
\* past the greeting on a connection whose remote end is there.
C7_GreetingFirst ==
    \A c \in Conn :
        /\ Cardinality(Greetings(c)) <= 1
        /\ wire[c] # << >> => wire[c][1] = GreetFrame
        /\ hpc[c] \in {"assign", "listen", "returned"} /\ peer[c] = "open"
              => Cardinality(Greetings(c)) = 1

\* C7, its case: a broadcast has enqueued a message for a session that is
\* still being registered, and the greeting is the one frame sent so far.
C7_Witness ==
    \E c \in Conn :
        /\ hpc[c] = "assign"
        /\ queue[c] # << >>
        /\ wire[c] = << GreetFrame >>

\* C8: when the broadcast of a message read from session A has returned,
\* the message has been enqueued on A's own channel and on that of every
\* session registered at the call.
C8_SelfEcho ==
    \A a \in Conn :
        last[Rd(a)].st = "done" =>
            \A s \in {a} \cup last[Rd(a)].mem : last[Rd(a)].dl[s] = 1

\* C9: no registration is lost: once no registration is under way, every
\* session whose registration has completed is in the registry.
C9_NoAddLost ==
    Settled => \A c \in Conn : hpc[c] = "listen" => c \in Registry

\* C10: a /broadcast/ request with text t enqueues Message{"Server", t}
\* once for every session of the registry and then answers
\* "Broadcasting t": it is never stuck for good inside broadcast, and once
\* it is done the response and the enqueues are these.
C10_TriggerBroadcastsAndReturns ==
    \A t \in Trig :
        /\ \A x \in Conn : BlockedOn(Tr(t), x) => ~Terminated(x)
        /\ tpc[t] = "done" =>
              /\ last[Tr(t)].msg.author = "Server"
              /\ resp[t] = "Broadcasting " \o last[Tr(t)].msg.body
              /\ \A s \in last[Tr(t)].mem : last[Tr(t)].dl[s] = 1

\* C11: a /broadcast/ request whose path has no message segment never makes
\* readMsgFromRequest index past the end of the split path: no request
\* handler panics, and a broadcast call is made only by a request that got
\* its message.
C11_MissingSegmentNoCrash ==
    \A t \in Trig :
        /\ tpc[t] # "panicked"
        /\ last[Tr(t)].st # "none" => tpc[t] \in {"bcast", "done"}

\* C11, its case: the request /broadcast/ has been served, its message the
\* empty string, enqueued for a registered session.
C11_Witness ==
    \E t \in Trig : \E c \in Conn :
        /\ tpc[t] = "done"
        /\ resp[t] = "Broadcasting "
        /\ last[Tr(t)].msg = Message("Server", "")
        /\ last[Tr(t)].dl[c] = 1

\* C12: the hand-off on c.close between the two loops of a session does not
\* deadlock: no session comes to rest with a loop parked for good in a send
\* on c.close that no loop is left to receive.
C12_NoHandoffDeadlock ==
    \A c \in Conn : ~Terminated(c)

\* the write loop of c has received the read loop's signal of termination
\* (the send of line 62 has completed)
Signalled(c) == wr[c] \in {"gotClose", "sendAck", "returned"}

\* C14: once the read loop has signalled termination after a clean
\* end-of-stream it stops: it is not in a further Receive, not inside
\* broadcast, and not in another send on c.close.
C14_SignalsOnceAndStops ==
    \A c \in Conn :
        Signalled(c) => rd[c] \in {"select", "returned"}

\* C15: a read that fails with an error other than io.EOF is swallowed: the
\* step leaves the registry, every channel, every broadcast call, every
\* connection and both loops of every session as they were; the read loop
\* is in its next Receive and the session's write loop goes on.
C15_ReadErrorSwallowed ==
    [][nerrs' # nerrs =>
          /\ UNCHANGED << clients, heap, queue, hold, wire, bc, last, closed, nreads >>
          /\ UNCHANGED << hpc, rd, wr, tpc >>
          /\ \E c \in Conn : rd'[c] = "recv" /\ wr'[c] \in {"select", "send"}]_vars

\* C15, its case: a read has failed and a later read of the same loop has
\* returned a message, which has been broadcast.
C15_Witness ==
    \E c \in Conn :
        /\ nerrs = 1
        /\ rd[c] = "recv"
        /\ last[Rd(c)].st = "done"
        /\ last[Rd(c)].msg = ClientMsg(c, 1)
        /\ last[Rd(c)].dl[c] = 1

\* the messages the write loop has sent on the connection of c, given the
\* frames w sent on the connections
WrittenOf(w, c) ==
    LET f == SelectSeq(w[c], LAMBDA x : x.by = "write")
    IN  [i \in 1..Len(f) |-> f[i].msg]

\* C16: delivery within a session is FIFO: every step leaves a session's
\* channel, held message and written messages alone, or puts one message
\* at the back of the channel, or has the write loop, holding nothing,
\* take the message at the front of the channel, or has it write the
\* message it holds next on the connection (nothing goes out once the
\* remote end is gone).
C16_SessionFIFO ==
    [][\A c \in Conn :
          \/ /\ queue'[c] = queue[c]
             /\ hold'[c] = hold[c]
             /\ WrittenOf(wire', c) = WrittenOf(wire, c)
          \/ /\ Len(queue'[c]) = Len(queue[c]) + 1
             /\ SubSeq(queue'[c], 1, Len(queue[c])) = queue[c]
             /\ hold'[c] = hold[c]
             /\ WrittenOf(wire', c) = WrittenOf(wire, c)
          \/ /\ queue[c] # << >>
             /\ queue'[c] = Tail(queue[c])
             /\ hold[c] = << >>
             /\ hold'[c] = << Head(queue[c]) >>
             /\ WrittenOf(wire', c) = WrittenOf(wire, c)
          \/ /\ queue'[c] = queue[c]
             /\ hold[c] # << >>
             /\ hold'[c] = << >>
             /\ WrittenOf(wire', c) =
                  IF peer[c] = "open"
                  THEN WrittenOf(wire, c) \o hold[c]
                  ELSE WrittenOf(wire, c)]_vars

\* C16, its case: the write loop of a session has written one message and
\* holds the next for its send, while a third, put into the freed slot, is
\* in the channel.
C16_Witness ==
    \E c \in Conn :
        /\ Len(WrittenOf(wire, c)) = 1
        /\ hold[c] # << >> /\ queue[c] # << >>
        /\ WrittenOf(wire, c)[1] # hold[c][1]
        /\ hold[c][1] # queue[c][1]
        /\ peer[c] = "open"

\* C17: one task at a time sends on a connection: while onWsConnect has
\* yet to finish the greeting send the session's write loop has not been
\* started and has sent nothing, and every frame is sent by one of the two.
C17_OneSenderAtATime ==
    \A c \in Conn :
        /\ hpc[c] \in {"idle", "append", "greet"} =>
              wr[c] = "none" /\ WrittenOf(wire, c) = << >>
        /\ \A i \in 1..Len(wire[c]) :
              /\ wire[c][i].by \in {"greet", "write"}
              /\ wire[c][i].by = "write" <=> i > 1

\* C17, its case: the greeting has gone out, the write loop has been
\* started and has sent a message after it.
C17_Witness ==
    \E c \in Conn :
        /\ wr[c] = "select"
        /\ Len(wire[c]) >= 2
        /\ wire[c][1] = GreetFrame
        /\ wire[c][2].by = "write"

\* the messages session c has been given so far, in the order of their
\* enqueue: those its write loop has sent, the one it holds, then those in
\* its channel
Received(c) == WrittenOf(wire, c) \o hold[c] \o queue[c]

\* C18: the messages of one producer keep their order at every receiver:
\* no session is given a later message of a connection before an earlier
\* one, and a read loop that is back in Receive has no broadcast running.
C18_ProducerOrder ==
    /\ \A c \in Conn : \A a \in Conn :
          \A i \in 1..Len(Received(c)) : \A j \in (i + 1)..Len(Received(c)) :
              \A n \in 1..Len(Bodies) : \A k \in (n + 1)..Len(Bodies) :
                  ~(Received(c)[i] = ClientMsg(a, k) /\ Received(c)[j] = ClientMsg(a, n))
    /\ \A a \in Conn : rd[a] = "recv" => bc[Rd(a)] = NoBc /\ last[Rd(a)].st # "running"

\* C18, its case: another session than the producer's has been given the
\* first and the second message read from the producer's connection.
C18_Witness ==
    \E a \in Conn : \E c \in Conn \ {a} :
        \E i \in 1..Len(Received(c)) : \E j \in (i + 1)..Len(Received(c)) :
            /\ Received(c)[i] = ClientMsg(a, 1)
            /\ Received(c)[j] = ClientMsg(a, 2)

\* the messages that are put on channels in the third environment
SessMsgs ==
    {ClientMsg(a, n) : a \in 1..SessTalkers, n \in 1..SessReads}
        \cup {Message("Server", readMsgFromRequest(p)) : p \in {q \in Paths : Routed(q)}}

\* message m is in the channel of c
InChannel(c, m) == \E i \in 1..Len(queue[c]) : queue[c][i] = m

\* the write loop of c has sent message m on the connection
Written(c, m) == \E i \in 1..Len(WrittenOf(wire, c)) : WrittenOf(wire, c)[i] = m

\* C19: under fair scheduling no enqueued message is lost for a live
\* session: a message in the channel of a session is eventually sent on the
\* connection by the write loop, unless the remote end goes away: the
\* message then leaves the channel for a send that fails, or the read loop
\* sees the end of the stream and signals termination.
C19_EnqueuedEventuallyWritten ==
    \A c \in 1..SessConn : \A m \in SessMsgs :
        InChannel(c, m) ~>
            \/ Written(c, m)
            \/ /\ peer[c] = "eof"
               /\ ~InChannel(c, m) \/ rd[c] \in {"sendEOF", "select", "sendAck", "returned"}

\* C19, its case: every message of the environment has been enqueued for
\* a session that stays connected, and its write loop has sent them all.
C19_Witness ==
    \E c \in Conn :
        /\ peer[c] = "open" /\ rd[c] = "recv" /\ wr[c] = "select"
        /\ queue[c] = << >>
        /\ Len(WrittenOf(wire, c)) = SessReads + SessTrig
        /\ \A p \in Procs : last[p].st = "done" => Written(c, last[p].msg)

====
